---------------------------- MODULE Spec2Model ----------------------------
(***************************************************************************)
(* Model of src/task_extractor.py (email-task-extractor): the confidence   *)
(* calculator, the review router and the process_email pipeline, and of    *)
(* the task list of the web app in src/app.py.                             *)
(*                                                                         *)
(* Python floats are IEEE-754 binary64.  A double x with |x| < 4 that is a *)
(* multiple of 2^-58 (every double of magnitude >= 2^-5 is one, and so is  *)
(* every sum or difference of such doubles) is held exactly as the pair    *)
(* <<hi, lo>> with x * 2^58 = hi * 2^30 + lo and 0 <= lo < 2^30.           *)
(***************************************************************************)
EXTENDS Integers, Sequences, FiniteSets, TLC

---------------------------------------------------------------------------
(* binary64 arithmetic *)

Limb == 2^30

\* <<h, l>> with l brought back into 0 .. Limb-1, the carry moved into h
Norm(h, l) == <<h + (l \div Limb), l % Limb>>

DNeg(x) == Norm(0 - x[1], 0 - x[2])

\* exact sum of two pairs (no rounding)
DExact(x, y) == Norm(x[1] + y[1], x[2] + y[2])

DLt(x, y) == x[1] < y[1] \/ (x[1] = y[1] /\ x[2] < y[2])

DGe(x, y) == ~DLt(x, y)

\* number of bits of a natural number below 2^31
BitLen(h) == CHOOSE k \in 0..31 : h < 2^k /\ (k = 0 \/ h >= 2^(k - 1))

\* round-to-nearest, ties-to-even, of a non-negative exact value m to 53
\* significant bits; sticky says that a non-zero part below 2^-58 was cut off
RoundMag(m, sticky) ==
    LET s == BitLen(m[1]) - 23
    IN  IF s <= 0
        THEN m
        ELSE LET q    == 2^s
                 r    == m[2] % q
                 kept == m[2] - r
                 half == q \div 2
                 up   == \/ r > half
                         \/ r = half /\ (sticky \/ (kept \div q) % 2 = 1)
             IN  Norm(m[1], kept + (IF up THEN q ELSE 0))

FRound(x) == IF x[1] < 0 THEN DNeg(RoundMag(DNeg(x), FALSE))
                         ELSE RoundMag(x, FALSE)

\* the float operators + and - of Python
FAdd(x, y) == FRound(DExact(x, y))

FSub(x, y) == FRound(DExact(x, DNeg(y)))

\* k binary digits of r/100 (r < 100): <<digits as a number, remainder>>
RECURSIVE FracBits(_, _, _)
FracBits(r, k, acc) ==
    IF k = 0 THEN <<acc, r>>
    ELSE LET d == IF 2 * r >= 100 THEN 1 ELSE 0
         IN  FracBits(2 * r - 100 * d, k - 1, 2 * acc + d)

\* the double a decimal literal with two decimals denotes: Dec(95) is the
\* value of 0.95, Dec(-50) that of -0.5 (float() and json.loads round to the
\* nearest double, ties to even).  Held exactly for 0 and for magnitudes of
\* 0.04 .. 1.99.
Dec(n) ==
    LET a   == IF n < 0 THEN 0 - n ELSE n
        top == FracBits(a % 100, 28, 0)
        low == FracBits(top[2], 30, 0)
        mag == RoundMag(<<(a \div 100) * 2^28 + top[1], low[1]>>, low[2] # 0)
    IN  IF n < 0 THEN DNeg(mag) ELSE mag

ZERO == Dec(0)

ONE == Dec(100)

---------------------------------------------------------------------------
(* Python values: a dict key may be missing; a JSON value may be null, a   *)
(* string (held as its sequence of characters), a float, a boolean or a    *)
(* list                                                                    *)

Absent == [t |-> "absent"]

None == [t |-> "none"]

Str(s) == [t |-> "str", v |-> s]

Num(d) == [t |-> "float", v |-> d]

Bool(b) == [t |-> "bool", v |-> b]

List(l) == [t |-> "list", v |-> l]

\* dict.get(key, default)
Get(d, key, default) == IF d[key] = Absent THEN default ELSE d[key]

\* truth value of a Python object: None, "", 0.0, False and [] are false
Truthy(x) ==
    CASE x.t = "none"  -> FALSE
      [] x.t = "str"   -> x.v # <<>>
      [] x.t = "float" -> x.v # ZERO
      [] x.t = "bool"  -> x.v
      [] x.t = "list"  -> x.v # <<>>
      [] OTHER         -> FALSE

UpperCase ==
    <<"A", "B", "C", "D", "E", "F", "G", "H", "I", "J", "K", "L", "M",
      "N", "O", "P", "Q", "R", "S", "T", "U", "V", "W", "X", "Y", "Z">>

LowerCase ==
    <<"a", "b", "c", "d", "e", "f", "g", "h", "i", "j", "k", "l", "m",
      "n", "o", "p", "q", "r", "s", "t", "u", "v", "w", "x", "y", "z">>

\* str.lower()
Lower(s) ==
    [k \in 1..Len(s) |->
        IF \E j \in 1..26 : UpperCase[j] = s[k]
        THEN LowerCase[CHOOSE j \in 1..26 : UpperCase[j] = s[k]]
        ELSE s[k]]

\* word in s (substring test)
Contains(word, s) ==
    \E k \in 1..(Len(s) - Len(word) + 1) :
        SubSeq(s, k, k + Len(word) - 1) = word

---------------------------------------------------------------------------
(* ConfidenceCalculator *)

UNSPECIFIED == <<"u", "n", "s", "p", "e", "c", "i", "f", "i", "e", "d">>

vague_words ==
    { <<"m", "a", "y", "b", "e">>,
      <<"m", "i", "g", "h", "t">>,
      <<"p", "o", "s", "s", "i", "b", "l", "y">>,
      <<"c", "o", "n", "s", "i", "d", "e", "r">>,
      <<"t", "h", "i", "n", "k", " ", "a", "b", "o", "u", "t">> }

\* the float literals of calculate_final_confidence
DEADLINE_PENALTY == Dec(15)

ASSIGNEE_PENALTY == Dec(20)

VAGUE_PENALTY == Dec(10)

REVIEW_BELOW == Dec(70)

\* a call either returns a value or raises
Return(v) == [exc |-> "none", val |-> v]

Raise(e) == [exc |-> e]

\* if not task.get('deadline')
DeadlineRule(task) == ~Truthy(Get(task, "deadline", None))

\* if task.get('assignee') == 'unspecified'
AssigneeRule(task) == Get(task, "assignee", None) = Str(UNSPECIFIED)

\* VagueRule without the lower-casing: a capitalised hedge word is missed
VagueRule_CaseSensitive(description) ==
    \E w \in vague_words : Contains(w, description)

\* if any(word in description for word in vague_words), description lower-cased
VagueRule(description) == \E w \in vague_words : Contains(w, Lower(description))

\* Penalise with the text put in front of the adjustments instead of appended
Penalise_Prepend(acc, fires, amount, text) ==
    IF fires
    THEN [penalties |-> FAdd(acc.penalties, amount),
          adjustments |-> <<text>> \o acc.adjustments]
    ELSE acc

\* penalties += amount; adjustments.append(text)
Penalise(acc, fires, amount, text) ==
    IF fires
    THEN [penalties |-> FAdd(acc.penalties, amount),
          adjustments |-> Append(acc.adjustments, text)]
    ELSE acc

\* Clamp without the upper bound: max(0.0, x)
Clamp_NoUpperBound(x) == IF DLt(ZERO, x) THEN x ELSE ZERO

\* max(0.0, min(1.0, x)) as Python's min and max evaluate it
Clamp(x) ==
    LET m == IF DLt(x, ONE) THEN x ELSE ONE
    IN  IF DLt(ZERO, m) THEN m ELSE ZERO

\* NeedsReview with the bound included: final_confidence <= 0.7
NeedsReview_Inclusive(final_confidence) == ~DLt(REVIEW_BELOW, final_confidence)

\* final_confidence < 0.7
NeedsReview(final_confidence) == DLt(final_confidence, REVIEW_BELOW)

CalculateFinalConfidence(task) ==
    LET llm_confidence == Get(task, "confidence_score", Num(ZERO))
        a0 == [penalties |-> ZERO, adjustments |-> <<>>]
        a1 == Penalise(a0, DeadlineRule(task), DEADLINE_PENALTY,
                       "No deadline specified (-0.15)")
        a2 == Penalise(a1, AssigneeRule(task), ASSIGNEE_PENALTY,
                       "Assignee not specified (-0.20)")
        description == Get(task, "task_description", Str(<<>>))
    IN  IF description.t # "str"
        THEN Raise("AttributeError")        \* None has no .lower()
        ELSE
        LET a3 == Penalise(a2, VagueRule(description.v), VAGUE_PENALTY,
                           "Vague language detected (-0.10)")
        IN  IF llm_confidence.t # "float"
            THEN Raise("TypeError")         \* None - float
            ELSE
            LET final_confidence == Clamp(FSub(llm_confidence.v, a3.penalties))
            IN  Return([llm_confidence   |-> llm_confidence.v,
                        rule_penalties   |-> a3.penalties,
                        final_confidence |-> final_confidence,
                        adjustments      |-> a3.adjustments,
                        needs_review     |-> NeedsReview(final_confidence)])

---------------------------------------------------------------------------
(* inputs *)

\* base confidences, in hundredths: in range, on the boundaries, out of range
BaseScores == {-50, 0, 50, 60, 70, 85, 95, 100, 150}

Descriptions ==
    { <<"f", "i", "n", "a", "l", "i", "z", "e", " ", "r", "e", "p", "o", "r", "t">>,
      <<"m", "a", "y", "b", "e", " ", "s", "c", "h", "e", "d", "u", "l", "e", " ",
        "a", " ", "m", "e", "e", "t", "i", "n", "g">>,
      <<"M", "a", "y", "b", "e", " ", "l", "a", "t", "e", "r">>,
      <<"m", "i", "g", "h", "t", " ", "p", "o", "s", "s", "i", "b", "l", "y">>,
      <<"c", "o", "n", "s", "i", "d", "e", "r", "a", "b", "l", "e">>,
      <<"t", "h", "i", "n", "k", "a", "b", "o", "u", "t">>,
      <<>> }

MIKE == <<"M", "i", "k", "e">>

Assignees ==
    { UNSPECIFIED,
      <<"U", "n", "s", "p", "e", "c", "i", "f", "i", "e", "d">>,
      MIKE }

DATE == <<"2", "0", "2", "4", "-", "0", "4", "-", "0", "5">>

Deadlines == { DATE, <<>> }

Field(S) == {Absent, None} \cup {Str(s) : s \in S}

CalcTasks ==
    [task_description : Field(Descriptions),
     assignee         : Field(Assignees),
     deadline         : Field(Deadlines),
     confidence_score : {Absent, None} \cup {Num(Dec(n)) : n \in BaseScores}]

---------------------------------------------------------------------------
(* TaskReviewQueue *)

\* __init__: the two thresholds are stored as given, the three lanes are empty
TaskReviewQueue(auto_approve_threshold, high_priority_threshold) ==
    [auto_approve_threshold  |-> auto_approve_threshold,
     high_priority_threshold |-> high_priority_threshold,
     auto_approved           |-> <<>>,
     standard_review         |-> <<>>,
     high_priority_review    |-> <<>>]

\* Band with strict comparisons: a task exactly at a threshold falls lower
Band_Exclusive(self, final_confidence) ==
    IF DLt(self.auto_approve_threshold, final_confidence)
    THEN [review_status |-> "auto_approved", queue |-> "auto_approved"]
    ELSE IF DLt(self.high_priority_threshold, final_confidence)
    THEN [review_status |-> "needs_review", queue |-> "standard_review"]
    ELSE [review_status |-> "needs_urgent_review", queue |-> "high_priority_review"]

\* the if / elif / else of route_task
Band(self, final_confidence) ==
    IF DGe(final_confidence, self.auto_approve_threshold)
    THEN [review_status |-> "auto_approved", queue |-> "auto_approved"]
    ELSE IF DGe(final_confidence, self.high_priority_threshold)
    THEN [review_status |-> "needs_review", queue |-> "standard_review"]
    ELSE [review_status |-> "needs_urgent_review", queue |-> "high_priority_review"]

\* RouteTask with the urgent tasks appended to the standard_review lane
RouteTask_UrgentToStandard(self, tk, metrics, now) ==
    LET band == Band(self, metrics.final_confidence)
        task_with_metadata ==
            [confidence_metrics |-> metrics,
             routed_at          |-> now,
             review_status      |-> band.review_status,
             queue              |-> band.queue] @@ tk
        lane == IF band.queue = "high_priority_review"
                THEN "standard_review" ELSE band.queue
    IN  [self |-> [self EXCEPT ![lane] = Append(@, task_with_metadata)],
         ret  |-> task_with_metadata]

\* RouteTask with the task put at the front of its lane
RouteTask_Prepend(self, tk, metrics, now) ==
    LET band == Band(self, metrics.final_confidence)
        task_with_metadata ==
            [confidence_metrics |-> metrics,
             routed_at          |-> now,
             review_status      |-> band.review_status,
             queue              |-> band.queue] @@ tk
    IN  [self |-> [self EXCEPT ![band.queue] = <<task_with_metadata>> \o @],
         ret  |-> task_with_metadata]

\* route_task: the task with its metadata, appended to the lane of its band;
\* now is datetime.now().isoformat()
RouteTask(self, tk, metrics, now) ==
    LET band == Band(self, metrics.final_confidence)
        task_with_metadata ==
            [confidence_metrics |-> metrics,
             routed_at          |-> now,
             review_status      |-> band.review_status,
             queue              |-> band.queue] @@ tk
    IN  [self |-> [self EXCEPT ![band.queue] = Append(@, task_with_metadata)],
         ret  |-> task_with_metadata]

\* get_summary with one lane left out of the total
GetSummary_TotalSkipsUrgent(self) ==
    [total_tasks          |-> Len(self.auto_approved) + Len(self.standard_review),
     auto_approved        |-> Len(self.auto_approved),
     standard_review      |-> Len(self.standard_review),
     high_priority_review |-> Len(self.high_priority_review)]

GetSummary(self) ==
    [total_tasks          |-> Len(self.auto_approved) + Len(self.standard_review)
                                + Len(self.high_priority_review),
     auto_approved        |-> Len(self.auto_approved),
     standard_review      |-> Len(self.standard_review),
     high_priority_review |-> Len(self.high_priority_review)]

\* get_review_tasks with the two lanes in the other order
GetReviewTasks_StandardFirst(self) ==
    self.standard_review \o self.high_priority_review

GetReviewTasks(self) == self.high_priority_review \o self.standard_review

---------------------------------------------------------------------------
(* inputs of the router and of the pipeline *)

TaskRecord(description, assignee, deadline, score) ==
    [task_description |-> description, assignee |-> assignee,
     deadline |-> deadline, confidence_score |-> score]

FINALIZE_REPORT ==
    <<"f", "i", "n", "a", "l", "i", "z", "e", " ", "r", "e", "p", "o", "r", "t">>

MAYBE_MEETING ==
    <<"m", "a", "y", "b", "e", " ", "s", "c", "h", "e", "d", "u", "l", "e", " ",
      "a", " ", "m", "e", "e", "t", "i", "n", "g">>

\* scenario 1 of the specification: final confidence 0.60
Scenario1 == TaskRecord(Str(FINALIZE_REPORT), Str(UNSPECIFIED), None, Num(Dec(95)))

\* scenario 2 of the specification: final confidence 0.50
Scenario2 == TaskRecord(Str(MAYBE_MEETING), Str(MIKE), Str(DATE), Num(Dec(60)))

\* no penalty, final confidence exactly 0.7
AtSeventy == TaskRecord(Str(FINALIZE_REPORT), Str(MIKE), Str(DATE), Num(Dec(70)))

\* 0.5 - 0.20: final confidence 0.3
Low == TaskRecord(Str(FINALIZE_REPORT), Str(UNSPECIFIED), Str(DATE), Num(Dec(50)))

\* 0.7 - 0.20 in binary64: final confidence 0.49999999999999994
JustBelowHalf ==
    TaskRecord(Str(FINALIZE_REPORT), Str(UNSPECIFIED), Str(DATE), Num(Dec(70)))

RouterTasks == {Scenario1, Scenario2, AtSeventy, Low, JustBelowHalf}

\* each of them with the metrics the calculator returns for it
ScoredRouterTasks ==
    {[task |-> tk, metrics |-> CalculateFinalConfidence(tk).val] : tk \in RouterTasks}

\* the default thresholds of TaskReviewQueue.__init__
DEFAULT_AUTO_APPROVE == Dec(70)

DEFAULT_HIGH_PRIORITY == Dec(50)

\* <<auto_approve_threshold, high_priority_threshold>> a caller may pass: the
\* defaults, equal thresholds, inverted thresholds, thresholds outside [0,1]
ThresholdPairs ==
    { <<DEFAULT_AUTO_APPROVE, DEFAULT_HIGH_PRIORITY>>,
      <<Dec(60), Dec(60)>>,
      <<Dec(50), Dec(70)>>,
      <<Dec(150), Dec(-50)>> }

\* values datetime.now().isoformat() may return
Stamps == {"2024-03-01T09:00:00", "2024-03-01T09:00:01"}

\* route_task calls made on one router
MaxCalls == 3

\* a null description: None has no .lower()
NullDescription == TaskRecord(None, Str(MIKE), Str(DATE), Num(Dec(95)))

\* a null confidence score: None - float
NullScore == TaskRecord(Str(FINALIZE_REPORT), Str(MIKE), Str(DATE), None)

\* fields missing, base confidence out of range
OutOfRange == TaskRecord(Absent, Absent, Absent, Num(Dec(150)))

PipelineTasks ==
    {Scenario1, Scenario2, AtSeventy, JustBelowHalf, NullDescription, NullScore,
     OutOfRange}

\* tasks in one batch
MaxTasks == 2

\* invocations with routed tasks after which the caller still comes back for
\* another process_email invocation
MaxBatches == 2

TaskLists == UNION {[1..n -> PipelineTasks] : n \in 0..MaxTasks}

\* _create_error_response; the metadata process_email never reads
\* (overall_confidence, extraction_timestamp) is left out
CreateErrorResponse(error_message) ==
    [tasks       |-> List(<<>>),
     ambiguities |-> List(<<Str(error_message)>>),
     error       |-> Bool(TRUE)]

\* what extract_tasks may return: an error response (the reply was no JSON,
\* or the request failed), or the dict the reply parsed to, whose keys are
\* whatever the language model wrote
ExtractionResults ==
    {CreateErrorResponse(m) :
        m \in {"Invalid JSON response from LLM", "Connection error."}}
    \cup
    [tasks       : {Absent, None} \cup {List(l) : l \in TaskLists},
     ambiguities : {Absent, List(<<>>), List(<<Str("Owner of task 2 is unclear")>>)},
     error       : {Absent, Bool(TRUE), Bool(FALSE)}]

---------------------------------------------------------------------------
VARIABLES
    pc,                  \* where the caller is
    task,                \* the task record being scored
    confidence_metrics,  \* what calculate_final_confidence returned
    exc,                 \* the exception that left the call, or "none"
    queue,               \* the TaskReviewQueue object
    ret,                 \* the router's caller: its most recent call and the result
    calls,               \* history: the calls that scored or routed a task
    extraction_result,   \* process_email: what extract_tasks returned
    i,                   \* process_email: position of the for loop in the tasks
    processed_tasks,     \* process_email: the list being built
    result,              \* what process_email returned
    confidence_threshold,\* web app: the value of the Auto-Approve Threshold slider
    session_state,       \* web app: st.session_state.processed_tasks
    shown,               \* web app: the task list as rendered and as exported
    last_summary,        \* history: what get_summary() returned last, since the
                         \* most recent route_task call
    batches              \* history: finished process_email invocations that
                         \* routed at least one task

pipeline == <<extraction_result, i, processed_tasks, result>>

app == <<confidence_threshold, session_state, shown>>

vars ==
    <<pc, task, confidence_metrics, exc, queue, ret, calls, pipeline, app,
      last_summary, batches>>

NoValue == [t |-> "novalue"]

---------------------------------------------------------------------------
(* a caller of ConfidenceCalculator.calculate_final_confidence *)

CalcInit ==
    /\ pc = "calc_call"
    /\ task \in CalcTasks
    /\ confidence_metrics = NoValue
    /\ exc = "none"
    /\ queue = NoValue
    /\ ret = NoValue
    /\ calls = <<>>
    /\ extraction_result = NoValue
    /\ i = 0
    /\ processed_tasks = NoValue
    /\ result = NoValue
    /\ confidence_threshold = NoValue
    /\ session_state = NoValue
    /\ shown = NoValue
    /\ last_summary = NoValue
    /\ batches = 0

CalcCall ==
    /\ pc = "calc_call"
    /\ LET r == CalculateFinalConfidence(task)
       IN  /\ exc' = r.exc
           /\ confidence_metrics' = IF r.exc = "none" THEN r.val ELSE NoValue
    /\ pc' = "calc_done"
    /\ UNCHANGED <<task, queue, ret, calls, pipeline, app, last_summary, batches>>

CalcNext == CalcCall

CalcSpec == CalcInit /\ [][CalcNext]_vars

---------------------------------------------------------------------------
(* a caller of one TaskReviewQueue: it constructs the router, then routes   *)
(* scored tasks and reads the summary and the review list in any order      *)

RouterInit ==
    /\ pc = "router_new"
    /\ task = NoValue
    /\ confidence_metrics = NoValue
    /\ exc = "none"
    /\ queue = NoValue
    /\ ret = NoValue
    /\ calls = <<>>
    /\ extraction_result = NoValue
    /\ i = 0
    /\ processed_tasks = NoValue
    /\ result = NoValue
    /\ confidence_threshold = NoValue
    /\ session_state = NoValue
    /\ shown = NoValue
    /\ last_summary = NoValue
    /\ batches = 0

Construct ==
    /\ pc = "router_new"
    /\ \E th \in ThresholdPairs :
          queue' = TaskReviewQueue(th[1], th[2])
    /\ pc' = "router_ready"
    /\ UNCHANGED <<task, confidence_metrics, exc, ret, calls, pipeline, app,
                   last_summary, batches>>

RouteTaskCall ==
    /\ pc = "router_ready"
    /\ Len(calls) < MaxCalls
    /\ \E in \in ScoredRouterTasks, now \in Stamps :
          LET r == RouteTask(queue, in.task, in.metrics, now)
          IN  /\ task' = in.task
              /\ confidence_metrics' = in.metrics
              /\ queue' = r.self
              /\ ret' = [op |-> "route_task", val |-> r.ret]
              /\ calls' = Append(calls, [op |-> "route_task", ret |-> r.ret])
    /\ last_summary' = NoValue
    /\ UNCHANGED <<pc, exc, pipeline, app, batches>>

\* GetSummaryCall if get_summary emptied the auto_approved lane it counted
GetSummaryCall_Drains ==
    /\ pc = "router_ready"
    /\ ret' = [op |-> "get_summary", val |-> GetSummary(queue)]
    /\ last_summary' = GetSummary(queue)
    /\ queue' = [queue EXCEPT !.auto_approved = <<>>]
    /\ UNCHANGED <<pc, task, confidence_metrics, exc, calls, pipeline, app, batches>>

GetSummaryCall ==
    /\ pc = "router_ready"
    /\ ret' = [op |-> "get_summary", val |-> GetSummary(queue)]
    /\ last_summary' = GetSummary(queue)
    /\ UNCHANGED <<pc, task, confidence_metrics, exc, queue, calls, pipeline, app, batches>>

GetReviewTasksCall ==
    /\ pc = "router_ready"
    /\ ret' = [op |-> "get_review_tasks", val |-> GetReviewTasks(queue)]
    /\ UNCHANGED <<pc, task, confidence_metrics, exc, queue, calls, pipeline, app,
                   last_summary, batches>>

RouterNext ==
    \/ Construct
    \/ RouteTaskCall
    \/ GetSummaryCall
    \/ GetReviewTasksCall

RouterSpec == RouterInit /\ [][RouterNext]_vars

---------------------------------------------------------------------------
(* process_email, one step per call it makes; its caller (the CLI loop, the *)
(* web app) may invoke it again once it has returned or raised             *)

Init ==
    /\ pc = "idle"
    /\ task = NoValue
    /\ confidence_metrics = NoValue
    /\ exc = "none"
    /\ queue = NoValue
    /\ ret = NoValue
    /\ calls = <<>>
    /\ extraction_result = NoValue
    /\ i = 0
    /\ processed_tasks = NoValue
    /\ result = NoValue
    /\ confidence_threshold = NoValue
    /\ session_state = NoValue
    /\ shown = NoValue
    /\ last_summary = NoValue
    /\ batches = 0

\* extraction_result.get('tasks', [])
TasksOf(er) == Get(er, "tasks", List(<<>>))

\* processed_tasks with the routed task put first
Collect_Prepend(processed, routed_task) == <<routed_task>> \o processed

\* processed_tasks.append(routed_task)
Collect(processed, routed_task) == Append(processed, routed_task)

\* ProcessEmailBeginWith if the lanes were shared by all routers: once an
\* earlier invocation has routed tasks, a new router starts with a task in
\* its auto_approved lane
ProcessEmailBeginWith_SharedLanes(results) ==
    /\ pc = "idle"
    /\ \E have_key \in BOOLEAN, er \in results :
          IF have_key
          THEN /\ queue' =
                    LET new == TaskReviewQueue(DEFAULT_AUTO_APPROVE,
                                               DEFAULT_HIGH_PRIORITY)
                    IN  IF batches = 0
                        THEN new
                        ELSE RouteTask(new, AtSeventy,
                                       CalculateFinalConfidence(AtSeventy).val,
                                       "2024-03-01T09:00:00").self
               /\ extraction_result' = er
               /\ exc' = "none"
               /\ pc' = "extracted"
          ELSE /\ queue' = NoValue
               /\ extraction_result' = NoValue
               /\ exc' = "ValueError"
               /\ pc' = "raised"
    /\ task' = NoValue
    /\ confidence_metrics' = NoValue
    /\ calls' = <<>>
    /\ i' = 0
    /\ processed_tasks' = NoValue
    /\ result' = NoValue
    /\ UNCHANGED <<ret, app, last_summary, batches>>

\* the components are built (TaskExtractor raises without an API key) and
\* extract_tasks is called
ProcessEmailBeginWith(results) ==
    /\ pc = "idle"
    /\ \E have_key \in BOOLEAN, er \in results :
          IF have_key
          THEN /\ queue' = TaskReviewQueue(DEFAULT_AUTO_APPROVE, DEFAULT_HIGH_PRIORITY)
               /\ extraction_result' = er
               /\ exc' = "none"
               /\ pc' = "extracted"
          ELSE /\ queue' = NoValue
               /\ extraction_result' = NoValue
               /\ exc' = "ValueError"
               /\ pc' = "raised"
    /\ task' = NoValue
    /\ confidence_metrics' = NoValue
    /\ calls' = <<>>
    /\ i' = 0
    /\ processed_tasks' = NoValue
    /\ result' = NoValue
    /\ UNCHANGED <<ret, app, last_summary, batches>>

ProcessEmailBegin == ProcessEmailBeginWith(ExtractionResults)

\* if extraction_result.get('error'): return the failure; else start the loop
ProcessEmailCheck ==
    /\ pc = "extracted"
    /\ IF Truthy(Get(extraction_result, "error", None))
       THEN LET ambiguities ==
                    Get(extraction_result, "ambiguities", List(<<Str("Unknown error")>>))
            IN  IF ambiguities.v = <<>>
                THEN /\ exc' = "IndexError"      \* [][0]
                     /\ pc' = "raised"
                     /\ UNCHANGED <<result, processed_tasks, i, batches>>
                ELSE /\ result' = [success           |-> FALSE,
                                   error             |-> ambiguities.v[1],
                                   extraction_result |-> extraction_result]
                     /\ pc' = "returned"
                     /\ UNCHANGED <<exc, processed_tasks, i, batches>>
       ELSE /\ processed_tasks' = List(<<>>)
            /\ IF TasksOf(extraction_result).t # "list"
               THEN /\ exc' = "TypeError"        \* for task in None
                    /\ pc' = "raised"
                    /\ UNCHANGED i
               ELSE /\ i' = 1
                    /\ pc' = IF TasksOf(extraction_result).v = <<>>
                             THEN "finish" ELSE "score"
                    /\ UNCHANGED exc
            /\ UNCHANGED result
    /\ UNCHANGED <<task, confidence_metrics, queue, ret, calls, extraction_result,
                   app, last_summary, batches>>

\* the for loop takes the next task; calculator.calculate_final_confidence(task)
ProcessEmailScore ==
    /\ pc = "score"
    /\ LET tk == TasksOf(extraction_result).v[i]
           r  == CalculateFinalConfidence(tk)
       IN  /\ task' = tk
           /\ calls' = Append(calls, [op  |-> "calculate_final_confidence",
                                      arg |-> tk, ret |-> r])
           /\ IF r.exc = "none"
              THEN /\ confidence_metrics' = r.val
                   /\ pc' = "route"
                   /\ UNCHANGED exc
              ELSE /\ exc' = r.exc
                   /\ pc' = "raised"
                   /\ UNCHANGED confidence_metrics
    /\ UNCHANGED <<queue, ret, pipeline, app, last_summary, batches>>

\* queue.route_task(task, confidence_metrics); processed_tasks.append(...)
ProcessEmailRoute ==
    /\ pc = "route"
    /\ \E now \in Stamps :
          LET r == RouteTask(queue, task, confidence_metrics, now)
          IN  /\ queue' = r.self
              /\ processed_tasks' = List(Collect(processed_tasks.v, r.ret))
              /\ calls' = Append(calls, [op |-> "route_task", ret |-> r.ret])
    /\ i' = i + 1
    /\ pc' = IF i < Len(TasksOf(extraction_result).v) THEN "score" ELSE "finish"
    /\ UNCHANGED <<task, confidence_metrics, exc, ret, extraction_result, result,
                   app, last_summary, batches>>

\* the return statement of a successful batch
ProcessEmailReturn ==
    /\ pc = "finish"
    /\ result' = [success             |-> TRUE,
                  extraction_result   |-> extraction_result,
                  processed_tasks     |-> processed_tasks.v,
                  queue_summary       |-> GetSummary(queue),
                  auto_approved_tasks |-> queue.auto_approved,
                  review_tasks        |-> GetReviewTasks(queue)]
    /\ pc' = "returned"
    /\ UNCHANGED <<task, confidence_metrics, exc, queue, ret, calls,
                   extraction_result, i, processed_tasks, app, last_summary, batches>>

\* the caller is done with the outcome and goes round its loop; the locals of
\* the invocation are gone, and with them the router it built
CallerContinues ==
    /\ pc \in {"returned", "raised"}
    /\ batches < MaxBatches
    /\ batches' = IF \E k \in 1..Len(calls) : calls[k].op = "route_task"
                  THEN batches + 1 ELSE batches
    /\ pc' = "idle"
    /\ task' = NoValue
    /\ confidence_metrics' = NoValue
    /\ exc' = "none"
    /\ queue' = NoValue
    /\ calls' = <<>>
    /\ extraction_result' = NoValue
    /\ i' = 0
    /\ processed_tasks' = NoValue
    /\ result' = NoValue
    /\ UNCHANGED <<ret, app, last_summary>>

Next ==
    \/ CallerContinues
    \/ ProcessEmailBegin
    \/ ProcessEmailCheck
    \/ ProcessEmailScore
    \/ ProcessEmailRoute
    \/ ProcessEmailReturn

Spec == Init /\ [][Next]_vars

---------------------------------------------------------------------------
(* the web app: a Streamlit script, run from the top on every interaction;  *)
(* one run reads the slider, calls process_email when the Extract button    *)
(* was pressed, and renders the batch kept in the session state             *)

\* the slider's initial value
SLIDER_DEFAULT == Dec(70)

\* the bound of the second branch of the task list rendering
LABEL_REVIEW_FROM == Dec(50)

\* positions of the slider (0.0 to 1.0): both ends, the middle, the default
SliderValues == {Dec(0), Dec(50), SLIDER_DEFAULT, Dec(100)}

\* tasks in a batch submitted through the web app
MaxShown == 2

\* what extract_tasks returns to the web app's process_email call: a failed
\* request, or batches of complete task records at 0.6, 0.7 and 0.3
AppExtractionResults ==
    {CreateErrorResponse("Connection error.")}
    \cup
    {[tasks |-> List(l), ambiguities |-> Absent, error |-> Absent] :
        l \in UNION {[1..n -> {Scenario1, AtSeventy, Low}] : n \in 0..MaxShown}}

\* the if / elif / else of the task list: the status shown for one task
StatusLabel(confidence, threshold) ==
    IF DGe(confidence, threshold) THEN "Auto-Approved"
    ELSE IF DGe(confidence, LABEL_REVIEW_FROM) THEN "Needs Review"
    ELSE "Urgent Review"

\* per task of the batch: the status shown, and the 'Status' column exported
RenderTasks(batch, threshold) ==
    [k \in 1..Len(batch.processed_tasks) |->
        LET t == batch.processed_tasks[k]
        IN  [confidence |-> t.confidence_metrics.final_confidence,
             status     |-> StatusLabel(t.confidence_metrics.final_confidence,
                                        threshold),
             exported   |-> t.review_status]]

AppInit ==
    /\ pc = "idle"
    /\ task = NoValue
    /\ confidence_metrics = NoValue
    /\ exc = "none"
    /\ queue = NoValue
    /\ ret = NoValue
    /\ calls = <<>>
    /\ extraction_result = NoValue
    /\ i = 0
    /\ processed_tasks = NoValue
    /\ result = NoValue
    /\ confidence_threshold = SLIDER_DEFAULT
    /\ session_state = None
    /\ shown = NoValue
    /\ last_summary = NoValue
    /\ batches = 0

\* the user moves the slider; the script is run again
MoveSlider ==
    /\ pc = "idle"
    /\ \E v \in SliderValues \ {confidence_threshold} : confidence_threshold' = v
    /\ pc' = "render"
    /\ UNCHANGED <<task, confidence_metrics, exc, queue, ret, calls, pipeline,
                   session_state, shown, last_summary, batches>>

\* the user presses Clear History: the session state is emptied (the
\* extraction history, which only feeds the sidebar's counters, as well) and
\* st.rerun() runs the script again
ClearHistory ==
    /\ pc = "idle"
    /\ session_state' = None
    /\ pc' = "render"
    /\ UNCHANGED <<task, confidence_metrics, exc, queue, ret, calls, pipeline,
                   confidence_threshold, shown, last_summary, batches>>

\* the user presses Extract Tasks: process_email(email_text, sender)
PressExtract == ProcessEmailBeginWith(AppExtractionResults)

\* process_email is back: a successful result is kept in the session state;
\* a failure result or an exception only shows an error message
KeepResult ==
    /\ pc \in {"returned", "raised"}
    /\ session_state' = IF pc = "returned" /\ result.success
                        THEN result ELSE session_state
    /\ pc' = "render"
    /\ task' = NoValue
    /\ confidence_metrics' = NoValue
    /\ exc' = "none"
    /\ queue' = NoValue
    /\ calls' = <<>>
    /\ extraction_result' = NoValue
    /\ i' = 0
    /\ processed_tasks' = NoValue
    /\ result' = NoValue
    /\ UNCHANGED <<ret, confidence_threshold, shown, last_summary, batches>>

\* if st.session_state.processed_tasks: the task list and the exports
Render ==
    /\ pc = "render"
    /\ shown' = IF session_state = None
                THEN NoValue
                ELSE List(RenderTasks(session_state, confidence_threshold))
    /\ pc' = "idle"
    /\ UNCHANGED <<task, confidence_metrics, exc, queue, ret, calls, pipeline,
                   confidence_threshold, session_state, last_summary, batches>>

AppNext ==
    \/ MoveSlider
    \/ ClearHistory
    \/ PressExtract
    \/ ProcessEmailCheck
    \/ ProcessEmailScore
    \/ ProcessEmailRoute
    \/ ProcessEmailReturn
    \/ KeepResult
    \/ Render

AppSpec == AppInit /\ [][AppNext]_vars

---------------------------------------------------------------------------
(* Claims about calculate_final_confidence, checked under CalcSpec *)

Returned == pc = "calc_done" /\ exc = "none"

\* the doubles of 0.10, 0.15, 0.20, 0.5, 0.6, 0.7, 0.95 and 1.5
F010 == Dec(10)

F015 == Dec(15)

F020 == Dec(20)

F05 == Dec(50)

F06 == Dec(60)

F07 == Dec(70)

F095 == Dec(95)

F15 == Dec(150)

\* the descriptions of the input set that hold a hedge word once lower-cased
HedgedDescriptions ==
    { <<"m", "a", "y", "b", "e", " ", "s", "c", "h", "e", "d", "u", "l", "e", " ",
        "a", " ", "m", "e", "e", "t", "i", "n", "g">>,
      <<"M", "a", "y", "b", "e", " ", "l", "a", "t", "e", "r">>,
      <<"m", "i", "g", "h", "t", " ", "p", "o", "s", "s", "i", "b", "l", "y">>,
      <<"c", "o", "n", "s", "i", "d", "e", "r", "a", "b", "l", "e">> }

DeadlineMissing(tk) == tk.deadline \in {Absent, None, Str(<<>>)}

AssigneeUnspecified(tk) == tk.assignee = Str(UNSPECIFIED)

DescriptionHedged(tk) ==
    tk.task_description.t = "str" /\ tk.task_description.v \in HedgedDescriptions

NoRuleFires(tk) ==
    ~DeadlineMissing(tk) /\ ~AssigneeUnspecified(tk) /\ ~DescriptionHedged(tk)

\* the sum, in binary64 and in rule order, of the penalties of the rules that fire
PenaltyOf(tk) ==
    FAdd(FAdd(FAdd(ZERO, IF DeadlineMissing(tk) THEN F015 ELSE ZERO),
              IF AssigneeUnspecified(tk) THEN F020 ELSE ZERO),
         IF DescriptionHedged(tk) THEN F010 ELSE ZERO)

\* the base confidence of a task record (0.0 when the field is missing)
BaseOf(tk) ==
    IF tk.confidence_score = Absent THEN ZERO ELSE tk.confidence_score.v

\* max(0, min(1, base - P)) with the subtraction in binary64
Expected(tk) ==
    LET x == FSub(BaseOf(tk), PenaltyOf(tk))
    IN  IF x[1] < 0 THEN ZERO
        ELSE IF DLt(ONE, x) THEN ONE ELSE x

InUnitInterval(x) == DGe(x, ZERO) /\ DGe(ONE, x)

\* C1 (as stated): the returned final_confidence is max(0, min(1, base - P)),
\* P the sum of the penalties of the rules that fire, and whenever no rule
\* fires final_confidence equals base_confidence.
C1_AsStated ==
    Returned =>
        /\ confidence_metrics.final_confidence = Expected(task)
        /\ NoRuleFires(task)
             => confidence_metrics.final_confidence = BaseOf(task)

\* C1 (amended): the returned final_confidence is max(0, min(1, base - P)) in
\* binary64 arithmetic, P the sum of the penalties of the rules that fire (a
\* missing, null or empty deadline 0.15, assignee exactly "unspecified" 0.20, a
\* hedge word in the lower-cased description 0.10 once); when no rule fires
\* and base_confidence lies in [0,1], final_confidence equals base_confidence.
C1_FinalConfidence ==
    Returned =>
        /\ confidence_metrics.final_confidence = Expected(task)
        /\ confidence_metrics.rule_penalties = PenaltyOf(task)
        /\ (NoRuleFires(task) /\ InUnitInterval(BaseOf(task)))
             => confidence_metrics.final_confidence = BaseOf(task)

\* scenario 1 of the specification has been scored: base 0.95, no deadline,
\* assignee "unspecified", no hedge word, final confidence 0.60
C1_Witness ==
    /\ Returned
    /\ task.confidence_score = Num(F095)
    /\ task.deadline = None
    /\ task.assignee = Str(UNSPECIFIED)
    /\ ~DescriptionHedged(task)
    /\ confidence_metrics.final_confidence = F06

\* C2: whatever the base confidence and whichever rules fire, the returned
\* final_confidence lies in [0.0, 1.0].
C2_Clamped == Returned => InUnitInterval(confidence_metrics.final_confidence)

\* a task with base confidence 1.5 and no penalty was scored: final 1.0
C2_Witness ==
    /\ Returned
    /\ task.confidence_score = Num(F15)
    /\ NoRuleFires(task)
    /\ confidence_metrics.final_confidence = ONE

\* the base confidence moved to its nearest value in [0,1]
ClampedBase(tk) ==
    LET c == BaseOf(tk)
    IN  [tk EXCEPT !.confidence_score =
            Num(IF c[1] < 0 THEN ZERO ELSE IF DLt(ONE, c) THEN ONE ELSE c)]

\* C10: a task whose base confidence lies outside [0,1] gets the final
\* confidence of the same task with the base confidence clamped into [0,1].
C10_BaseClampedFirst ==
    (Returned /\ ~InUnitInterval(BaseOf(task)))
        => confidence_metrics.final_confidence = Expected(ClampedBase(task))

\* the double of 0.35
F035 == Dec(35)

\* the entry a rule records when it fires, nothing when it does not
EntryIf(fires, text) == IF fires THEN <<text>> ELSE <<>>

\* C11: adjustments has exactly one entry per penalty rule that fired and none
\* for a rule that did not, in the order deadline, assignee, vague language;
\* a task with no deadline, assignee "unspecified" and no hedge word has
\* penalty total 0.35 and exactly the entries "No deadline specified (-0.15)"
\* then "Assignee not specified (-0.20)".
C11_Adjustments ==
    Returned =>
      /\ confidence_metrics.adjustments =
            EntryIf(DeadlineMissing(task), "No deadline specified (-0.15)")
              \o EntryIf(AssigneeUnspecified(task), "Assignee not specified (-0.20)")
              \o EntryIf(DescriptionHedged(task), "Vague language detected (-0.10)")
      /\ (DeadlineMissing(task) /\ AssigneeUnspecified(task)
            /\ ~DescriptionHedged(task))
           => /\ confidence_metrics.rule_penalties = F035
              /\ confidence_metrics.adjustments =
                    <<"No deadline specified (-0.15)",
                      "Assignee not specified (-0.20)">>

\* a task without a deadline, with assignee "unspecified" and no hedge word
\* was scored: penalty total 0.35 and the two entries, deadline first
C11_Witness ==
    /\ Returned
    /\ task.deadline = Absent
    /\ task.assignee = Str(UNSPECIFIED)
    /\ task.task_description = Str(FINALIZE_REPORT)
    /\ confidence_metrics.rule_penalties = F035
    /\ Len(confidence_metrics.adjustments) = 2
    /\ confidence_metrics.adjustments[1] = "No deadline specified (-0.15)"

---------------------------------------------------------------------------
(* Claims about TaskReviewQueue, checked under RouterSpec *)

Constructed == queue # NoValue

\* x >= y on doubles
Geq(x, y) == x[1] > y[1] \/ (x[1] = y[1] /\ x[2] >= y[2])

\* the RoutedTasks returned by the route_task calls so far, in call order
Routed ==
    LET IsRoute(e) == e.op = "route_task"
        events == SelectSeq(calls, IsRoute)
    IN  [k \in 1..Len(events) |-> events[k].ret]

InLane(rs, lane) ==
    LET Here(r) == r.queue = lane
    IN  SelectSeq(rs, Here)

DefaultThresholds ==
    /\ queue.auto_approve_threshold = F07
    /\ queue.high_priority_threshold = F05

\* C3: every routed task gets the lane and status of its band, the lower
\* bound of a band inclusive: final_confidence >= auto_approve_threshold gives
\* auto_approved / auto_approved, otherwise final_confidence >=
\* high_priority_threshold gives standard_review / needs_review, otherwise
\* high_priority_review / needs_urgent_review; with the default thresholds 0.7
\* is auto_approved and 0.5 is standard_review; status and lane correspond.
C3_Bands ==
    Constructed =>
      /\ \A k \in 1..Len(Routed) :
           LET r  == Routed[k]
               fc == r.confidence_metrics.final_confidence
               a  == queue.auto_approve_threshold
               h  == queue.high_priority_threshold
           IN  /\ Geq(fc, a)
                    => r.queue = "auto_approved" /\ r.review_status = "auto_approved"
               /\ (~Geq(fc, a) /\ Geq(fc, h))
                    => r.queue = "standard_review" /\ r.review_status = "needs_review"
               /\ (~Geq(fc, a) /\ ~Geq(fc, h))
                    => /\ r.queue = "high_priority_review"
                       /\ r.review_status = "needs_urgent_review"
               /\ (DefaultThresholds /\ fc = F07) => r.queue = "auto_approved"
               /\ (DefaultThresholds /\ fc = F05) => r.queue = "standard_review"
               /\ <<r.review_status, r.queue>> \in
                     { <<"auto_approved", "auto_approved">>,
                       <<"needs_review", "standard_review">>,
                       <<"needs_urgent_review", "high_priority_review">> }
      /\ Len(queue.auto_approved) + Len(queue.standard_review)
           + Len(queue.high_priority_review) = Len(Routed)

\* a router with the default thresholds has routed a task at exactly 0.7 to
\* auto_approved and a task at exactly 0.5 to standard_review
C3_Witness ==
    /\ Constructed
    /\ DefaultThresholds
    /\ \E k \in 1..Len(Routed) :
          /\ Routed[k].confidence_metrics.final_confidence = F07
          /\ Routed[k].queue = "auto_approved"
    /\ \E k \in 1..Len(Routed) :
          /\ Routed[k].confidence_metrics.final_confidence = F05
          /\ Routed[k].queue = "standard_review"

\* C4: get_review_tasks() returns the high_priority_review tasks in the order
\* they were routed, followed by the standard_review tasks in the order they
\* were routed, and no task of the auto_approved lane.
C4_ReviewOrder ==
    (Constructed /\ ret # NoValue /\ ret.op = "get_review_tasks") =>
      /\ ret.val = InLane(Routed, "high_priority_review")
                     \o InLane(Routed, "standard_review")
      /\ \A k \in 1..Len(ret.val) :
           \A j \in 1..Len(queue.auto_approved) :
              ret.val[k] # queue.auto_approved[j]

\* get_review_tasks() was called after a standard_review task, then an urgent
\* task, then an auto-approved task were routed
C4_Witness ==
    /\ Constructed
    /\ ret # NoValue
    /\ ret.op = "get_review_tasks"
    /\ Len(Routed) = 3
    /\ Routed[1].queue = "standard_review"
    /\ Routed[2].queue = "high_priority_review"
    /\ Routed[3].queue = "auto_approved"
    /\ ret.val = <<Routed[2], Routed[1]>>

\* C5: the total of get_summary() is the sum of its three lane counts and the
\* number of route_task calls made on the router so far.
C5_SummaryTotal ==
    (Constructed /\ ret # NoValue /\ ret.op = "get_summary") =>
      /\ ret.val.total_tasks = ret.val.auto_approved + ret.val.standard_review
                                 + ret.val.high_priority_review
      /\ ret.val.total_tasks = Len(Routed)

\* get_summary() was called after tasks were routed to two different lanes,
\* one of them the urgent lane
C5_Witness ==
    /\ Constructed
    /\ ret # NoValue
    /\ ret.op = "get_summary"
    /\ ret.val.high_priority_review >= 1
    /\ ret.val.auto_approved >= 1
    /\ ret.val.total_tasks = Len(Routed)

\* C9: every constructed router has
\* 0 <= high_priority_threshold <= auto_approve_threshold <= 1.
C9_ThresholdsValid ==
    Constructed =>
      /\ Geq(queue.high_priority_threshold, ZERO)
      /\ Geq(queue.auto_approve_threshold, queue.high_priority_threshold)
      /\ Geq(ONE, queue.auto_approve_threshold)

\* C14: get_summary() is a pure read. A step that is not a route_task call
\* (a get_summary or a get_review_tasks call) leaves the three lanes and both
\* thresholds unchanged, and a get_summary() call returns the same result as
\* the get_summary() call before it when no route_task call came in between.
C14_SummaryPureRead ==
    [][ (Constructed /\ calls' = calls) =>
          /\ queue' = queue
          /\ (last_summary # NoValue /\ last_summary' # NoValue)
                => last_summary' = last_summary ]_vars

\* get_summary() and then get_review_tasks() were called on a router holding
\* tasks in all three lanes, which are as long as the summary said
C14_Witness ==
    /\ Constructed
    /\ ret # NoValue
    /\ ret.op = "get_review_tasks"
    /\ last_summary # NoValue
    /\ last_summary.auto_approved = 1
    /\ last_summary.standard_review = 1
    /\ last_summary.high_priority_review = 1
    /\ Len(queue.auto_approved) = 1
    /\ Len(queue.standard_review) = 1
    /\ Len(queue.high_priority_review) = 1

Lanes == {"auto_approved", "standard_review", "high_priority_review"}

\* s is an initial segment of t
IsPrefix(s, t) == Len(s) <= Len(t) /\ SubSeq(t, 1, Len(s)) = s

\* C15: a route_task call changes the router only by appending the RoutedTask
\* it returns at the end of exactly one lane; the other two lanes and both
\* thresholds are unchanged, and on every step each lane keeps its previous
\* contents, in place, as a prefix.
C15_AppendOnly ==
    [][ Constructed =>
          /\ \A lane \in Lanes : IsPrefix(queue[lane], queue'[lane])
          /\ queue'.auto_approve_threshold = queue.auto_approve_threshold
          /\ queue'.high_priority_threshold = queue.high_priority_threshold
          /\ (calls' # calls) =>
                \E lane \in Lanes :
                   /\ queue'[lane] = Append(queue[lane], calls'[Len(calls')].ret)
                   /\ \A other \in Lanes \ {lane} : queue'[other] = queue[other] ]_vars

\* three tasks were routed: the first and the third to standard_review, where
\* they stand in that order, the second to auto_approved
C15_Witness ==
    /\ Constructed
    /\ Len(calls) = 3
    /\ queue.standard_review = <<calls[1].ret, calls[3].ret>>
    /\ calls[1].ret # calls[3].ret
    /\ queue.auto_approved = <<calls[2].ret>>
    /\ queue.high_priority_review = <<>>

\* how many times x occurs in a sequence
Count(x, seq) == Cardinality({k \in 1..Len(seq) : seq[k] = x})

\* the final confidence of a RoutedTask
Confidence(r) == r.confidence_metrics.final_confidence

\* C17: in every state reached by route_task calls on one router, each routed
\* task is held in exactly one lane, the one its queue field names, and that
\* lane matches its band: an element of auto_approved has final_confidence >=
\* auto_approve_threshold, an element of standard_review has
\* high_priority_threshold <= final_confidence < auto_approve_threshold, an
\* element of high_priority_review has final_confidence <
\* high_priority_threshold. Hence the auto_approved lane together with the
\* list get_review_tasks() returns, of which a batch result is made, holds
\* each routed task exactly once.
C17_LanesMatchBands ==
    Constructed =>
      LET a == queue.auto_approve_threshold
          h == queue.high_priority_threshold
      IN  /\ \A lane \in Lanes : queue[lane] = InLane(Routed, lane)
          /\ \A k \in 1..Len(Routed) :
                /\ Routed[k].queue \in Lanes
                /\ Count(Routed[k], queue[Routed[k].queue]) >= 1
                /\ \A other \in Lanes \ {Routed[k].queue} :
                      Count(Routed[k], queue[other]) = 0
          /\ \A k \in 1..Len(queue.auto_approved) :
                /\ Geq(Confidence(queue.auto_approved[k]), a)
                /\ queue.auto_approved[k].queue = "auto_approved"
          /\ \A k \in 1..Len(queue.standard_review) :
                /\ Geq(Confidence(queue.standard_review[k]), h)
                /\ ~Geq(Confidence(queue.standard_review[k]), a)
                /\ queue.standard_review[k].queue = "standard_review"
          /\ \A k \in 1..Len(queue.high_priority_review) :
                /\ ~Geq(Confidence(queue.high_priority_review[k]), h)
                /\ queue.high_priority_review[k].queue = "high_priority_review"
          /\ (ret # NoValue /\ ret.op = "get_review_tasks") =>
                /\ Len(queue.auto_approved) + Len(ret.val) = Len(Routed)
                /\ \A k \in 1..Len(Routed) :
                      Count(Routed[k], queue.auto_approved \o ret.val)
                        = Count(Routed[k], Routed)

\* a router with the default thresholds holds one task in each lane, at 0.7,
\* at 0.5 and just below 0.5, and get_review_tasks() has been called
C17_Witness ==
    /\ Constructed
    /\ DefaultThresholds
    /\ ret # NoValue
    /\ ret.op = "get_review_tasks"
    /\ Len(queue.auto_approved) = 1
    /\ Confidence(queue.auto_approved[1]) = F07
    /\ Len(queue.standard_review) = 1
    /\ Confidence(queue.standard_review[1]) = F05
    /\ Len(queue.high_priority_review) = 1
    /\ Confidence(queue.high_priority_review[1]) # F05
    /\ Geq(Confidence(queue.high_priority_review[1]), Dec(49))

---------------------------------------------------------------------------
(* Claims about process_email, checked under Spec *)

Extracted == extraction_result # NoValue

ErrorReported == Extracted /\ Truthy(Get(extraction_result, "error", None))

\* the tasks of the batch, when extraction gave a list of them (or no key)
BatchIsList == Extracted /\ TasksOf(extraction_result).t = "list"

Batch == TasksOf(extraction_result).v

Finished == pc \in {"returned", "raised"}

\* r is the RoutedTask of task record tk scored as metrics
BuiltFrom(r, tk, metrics) ==
    /\ r.task_description = tk.task_description
    /\ r.assignee = tk.assignee
    /\ r.deadline = tk.deadline
    /\ r.confidence_score = tk.confidence_score
    /\ r.confidence_metrics = metrics

\* C6: the tasks of a batch are scored and routed in input order, task k
\* routed before task k+1 is scored, and the k-th element of processed_tasks
\* is the RoutedTask built from the k-th input task.
C6_InputOrder ==
    (BatchIsList /\ ~ErrorReported) =>
      /\ \A k \in 1..Len(calls) :
           IF k % 2 = 1
           THEN /\ calls[k].op = "calculate_final_confidence"
                /\ calls[k].arg = Batch[(k + 1) \div 2]
           ELSE /\ calls[k].op = "route_task"
                /\ calls[k - 1].ret.exc = "none"
                /\ BuiltFrom(calls[k].ret, Batch[k \div 2], calls[k - 1].ret.val)
      /\ processed_tasks # NoValue =>
           /\ Len(processed_tasks.v) = Len(calls) \div 2
           /\ \A k \in 1..Len(processed_tasks.v) :
                processed_tasks.v[k] = calls[2 * k].ret
      /\ (pc = "returned") =>
           /\ result.processed_tasks = processed_tasks.v
           /\ Len(result.processed_tasks) = Len(Batch)

\* a batch of two different tasks has been returned, the second task routed
\* to another lane than the first
C6_Witness ==
    /\ pc = "returned"
    /\ result.success
    /\ Len(Batch) = 2
    /\ Batch[1] # Batch[2]
    /\ BuiltFrom(result.processed_tasks[1], Batch[1], calls[1].ret.val)
    /\ BuiltFrom(result.processed_tasks[2], Batch[2], calls[3].ret.val)
    /\ result.processed_tasks[1].queue # result.processed_tasks[2].queue

\* C7: when the extraction result has error set, process_email returns a
\* failure (success false) that carries the collaborator's error message and
\* no processed_tasks, and neither the calculator nor the router is called.
C7_ErrorFailsCleanly ==
    (ErrorReported /\ Finished) =>
      /\ calls = <<>>
      /\ exc = "none"
      /\ result.success = FALSE
      /\ "processed_tasks" \notin DOMAIN result
      /\ result.error =
           Get(extraction_result, "ambiguities", List(<<Str("Unknown error")>>)).v[1]

\* C8: once extraction has succeeded with a list of task records, scoring
\* and routing raise nothing and process_email returns success with one
\* RoutedTask per input task.
C8_BatchNeverFails ==
    (BatchIsList /\ ~ErrorReported) =>
      /\ exc = "none"
      /\ (pc = "returned") =>
           /\ result.success
           /\ Len(result.processed_tasks) = Len(Batch)


\* the RoutedTasks the router has returned in this invocation of process_email
RoutedInBatch ==
    LET IsRoute(e) == e.op = "route_task"
        events == SelectSeq(calls, IsRoute)
    IN  [k \in 1..Len(events) |-> events[k].ret]

\* C12: for every task process_email has processed, needs_review equals
\* (final_confidence < 0.7), and it is true exactly when the review_status the
\* router assigned is not auto_approved.
C12_NeedsReviewRedundant ==
    \A k \in 1..Len(RoutedInBatch) :
       LET r == RoutedInBatch[k]
       IN  /\ r.confidence_metrics.needs_review
                 = ~Geq(r.confidence_metrics.final_confidence, F07)
           /\ r.confidence_metrics.needs_review
                 = (r.review_status # "auto_approved")

\* a batch was returned whose first task, at exactly 0.7, is auto-approved
\* without the flag and whose second task, at 0.6, is flagged and in review
C12_Witness ==
    /\ pc = "returned"
    /\ result.success
    /\ Len(result.processed_tasks) = 2
    /\ result.processed_tasks[1].confidence_metrics.final_confidence = F07
    /\ ~result.processed_tasks[1].confidence_metrics.needs_review
    /\ result.processed_tasks[1].review_status = "auto_approved"
    /\ result.processed_tasks[2].confidence_metrics.final_confidence = F06
    /\ result.processed_tasks[2].confidence_metrics.needs_review
    /\ result.processed_tasks[2].review_status = "needs_review"


\* the elements of a sequence
Elements(seq) == {seq[k] : k \in 1..Len(seq)}

\* C16: no state carries over between batches. Whatever invocations came
\* before, an invocation of process_email starts with three empty lanes and
\* its lanes hold exactly the tasks it has routed itself; the result of a
\* successful batch has total_tasks equal to the number of tasks in the batch,
\* and its queue_summary, auto_approved_tasks and review_tasks count and
\* contain only tasks of its own processed_tasks.
C16_NoCarryOver ==
    (Extracted /\ queue # NoValue) =>
      /\ \A lane \in Lanes : queue[lane] = InLane(RoutedInBatch, lane)
      /\ (pc = "extracted") => \A lane \in Lanes : queue[lane] = <<>>
      /\ (pc = "returned" /\ result.success) =>
           /\ result.queue_summary.total_tasks = Len(Batch)
           /\ \A lane \in Lanes :
                 result.queue_summary[lane]
                   = Len(InLane(result.processed_tasks, lane))
           /\ Elements(result.auto_approved_tasks)
                 \subseteq Elements(result.processed_tasks)
           /\ Elements(result.review_tasks)
                 \subseteq Elements(result.processed_tasks)
           /\ Len(result.auto_approved_tasks) + Len(result.review_tasks)
                 = Len(Batch)

\* after two earlier invocations that routed tasks, a batch of one task was
\* returned: it is the only task counted and the only one in the result lists
C16_Witness ==
    /\ batches = 2
    /\ pc = "returned"
    /\ result.success
    /\ Len(Batch) = 1
    /\ result.queue_summary.total_tasks = 1
    /\ result.auto_approved_tasks \o result.review_tasks = result.processed_tasks

\* the status label that names a review_status
LabelOf(review_status) ==
    CASE review_status = "auto_approved"       -> "Auto-Approved"
      [] review_status = "needs_review"        -> "Needs Review"
      [] review_status = "needs_urgent_review" -> "Urgent Review"

\* the task list on screen is the one rendered with the slider as it stands
OnScreen == pc = "idle" /\ shown # NoValue

\* C13: in the web app, for every slider value and every task shown whose
\* final_confidence is above the Auto-Approve Threshold, the exported
\* review_status is auto_approved, and the status label shown for a task
\* agrees with its review_status.
C13_SliderAutoApproves ==
    OnScreen =>
      \A k \in 1..Len(shown.v) :
         /\ (~Geq(confidence_threshold, shown.v[k].confidence))
               => shown.v[k].exported = "auto_approved"
         /\ shown.v[k].status = LabelOf(shown.v[k].exported)


\* in the result of a successful batch, auto_approved_tasks together with
\* review_tasks hold each element of processed_tasks exactly as often as
\* processed_tasks does
BatchResultPartition ==
    (pc = "returned" /\ result.success) =>
      \A k \in 1..Len(result.processed_tasks) :
         Count(result.processed_tasks[k],
               result.auto_approved_tasks \o result.review_tasks)
           = Count(result.processed_tasks[k], result.processed_tasks)

=============================================================================
